---- MODULE Spec2Model ----
(***************************************************************************)
(* Model of the address-book assistant bot (src/main.py): the value types  *)
(* Name / Phone / Birthday, Record, AddressBook, the command handlers and  *)
(* the command loop.                                                       *)
(*                                                                         *)
(* Strings are sequences of characters.  Exceptions are modelled as result *)
(* records [ok |-> FALSE, err |-> <message>, ...].                         *)
(***************************************************************************)
EXTENDS Integers, Sequences, FiniteSets, TLC

VARIABLES
    book,   \* AddressBook.data: insertion-ordered sequence of [key, rec]
    last,   \* the last call made: [op, args, out, before]
    pc,     \* position of main(): "running", "exited" or "crashed"
    disk    \* the pickle file: [present, data]

vars == <<book, last, pc, disk>>

----------------------------------------------------------------------------
(* Bounds of the model *)

MaxPhones == 2      \* phones per record the inputs are allowed to build up
MaxStrLen == 11     \* longest string handed to Phone()
MaxArgs == 4        \* longest argument list handed to a handler
MinYear == 2023     \* first year the reference date ranges over
MaxYear == 2024     \* last year the reference date ranges over

(* Program constants *)

PhoneLen == 10      \* r"\d{10}"
WindowDays == 7     \* 0 <= days_to_birthday <= 7

----------------------------------------------------------------------------
(* Characters and strings *)

AsciiDigits == {"0", "1", "2", "3", "4", "5", "6", "7", "8", "9"}

\* Decimal digits outside ASCII (Unicode category Nd); "U+0663" stands for
\* the single character ARABIC-INDIC DIGIT THREE.
UnicodeDigits == {"U+0663"}

\* What \d matches in a str pattern: any Unicode decimal digit.
IsDecimalDigit(c) == c \in AsciiDigits \cup UnicodeDigits

\* int() of one decimal digit character.
DigitVal(c) ==
    CASE c = "0" -> 0 [] c = "1" -> 1 [] c = "2" -> 2 [] c = "3" -> 3
      [] c = "4" -> 4 [] c = "5" -> 5 [] c = "6" -> 6 [] c = "7" -> 7
      [] c = "8" -> 8 [] c = "9" -> 9 [] c = "U+0663" -> 3

Rep(c, n) == [i \in 1..n |-> c]

None == <<>>
Some(x) == <<x>>

Ok(v) == [ok |-> TRUE, err |-> "", val |-> v]
Raise(msg, v) == [ok |-> FALSE, err |-> msg, val |-> v]

----------------------------------------------------------------------------
(* Field value types *)

\* Name.__init__: the name must be non-empty.
Name(name) ==
    IF name = <<>> THEN Raise("Name is a required field", name) ELSE Ok(name)

\* re.fullmatch(r"\d{10}", phone)
re_fullmatch_d10(phone) ==
    /\ Len(phone) = PhoneLen
    /\ \A i \in 1..Len(phone) : IsDecimalDigit(phone[i])

\* A phone validator that insists on ASCII digits only (not what the code does).
re_fullmatch_ascii10(phone) ==
    /\ Len(phone) = PhoneLen
    /\ \A i \in 1..Len(phone) : phone[i] \in AsciiDigits

\* Phone.__init__
Phone(phone) ==
    IF ~ re_fullmatch_d10(phone)
    THEN Raise("Phone number must be 10 digits", phone)
    ELSE Ok(phone)

----------------------------------------------------------------------------
(* datetime.date: a date is [year, month, day] *)

Date(y, m, d) == [year |-> y, month |-> m, day |-> d]

IsLeap(y) == y % 4 = 0 /\ (y % 100 # 0 \/ y % 400 = 0)

DaysInMonth(y, m) ==
    IF m = 2 THEN (IF IsLeap(y) THEN 29 ELSE 28)
    ELSE IF m \in {4, 6, 9, 11} THEN 30 ELSE 31

DaysBeforeYear(y) ==
    (y - 1) * 365 + (y - 1) \div 4 - (y - 1) \div 100 + (y - 1) \div 400

RECURSIVE DaysBeforeMonth(_, _)
DaysBeforeMonth(y, m) ==
    IF m = 1 THEN 0 ELSE DaysBeforeMonth(y, m - 1) + DaysInMonth(y, m - 1)

\* date.toordinal()
ToOrdinal(dt) == DaysBeforeYear(dt.year) + DaysBeforeMonth(dt.year, dt.month) + dt.day

\* The checks of the date constructor.
DateInRange(y, m, d) ==
    /\ 1 <= y /\ y <= 9999       \* datetime.MINYEAR, datetime.MAXYEAR
    /\ 1 <= m /\ m <= 12
    /\ 1 <= d /\ d <= DaysInMonth(y, m)

\* date.replace(year=y)
date_replace_year(dt, y) ==
    IF DateInRange(y, dt.month, dt.day)
    THEN Ok(Date(y, dt.month, dt.day))
    ELSE Raise("day is out of range for month", dt)

\* a < b on dates
DateLess(a, b) == ToOrdinal(a) < ToOrdinal(b)

\* (a - b).days
DaysBetween(a, b) == ToOrdinal(a) - ToOrdinal(b)

DigitChar(n) == <<"0", "1", "2", "3", "4", "5", "6", "7", "8", "9">>[n + 1]

Fmt2(n) == <<DigitChar(n \div 10), DigitChar(n % 10)>>

Fmt4(n) == <<DigitChar(n \div 1000), DigitChar((n \div 100) % 10),
             DigitChar((n \div 10) % 10), DigitChar(n % 10)>>

\* strftime("%d.%m.%Y")
strftime_dmY(dt) == Fmt2(dt.day) \o <<".">> \o Fmt2(dt.month) \o <<".">> \o Fmt4(dt.year)

\* strftime('%Y.%m.%d')
strftime_Ymd(dt) == Fmt4(dt.year) \o <<".">> \o Fmt2(dt.month) \o <<".">> \o Fmt2(dt.day)

\* int() of a string of decimal digits
RECURSIVE IntOf(_)
IntOf(s) ==
    IF s = <<>> THEN 0
    ELSE 10 * IntOf(SubSeq(s, 1, Len(s) - 1)) + DigitVal(s[Len(s)])

\* %d: 3[0-1]|[1-2]\d|0[1-9]|[1-9]| [1-9]
MatchDay(s) ==
    \/ Len(s) = 2 /\ s[1] = "3" /\ s[2] \in {"0", "1"}
    \/ Len(s) = 2 /\ s[1] \in {"1", "2"} /\ IsDecimalDigit(s[2])
    \/ Len(s) = 2 /\ s[1] \in {"0", " "} /\ s[2] \in AsciiDigits \ {"0"}
    \/ Len(s) = 1 /\ s[1] \in AsciiDigits \ {"0"}

\* %m: 1[0-2]|0[1-9]|[1-9]
MatchMonth(s) ==
    \/ Len(s) = 2 /\ s[1] = "1" /\ s[2] \in {"0", "1", "2"}
    \/ Len(s) = 2 /\ s[1] = "0" /\ s[2] \in AsciiDigits \ {"0"}
    \/ Len(s) = 1 /\ s[1] \in AsciiDigits \ {"0"}

\* %Y: \d\d\d\d
MatchYear(s) == Len(s) = 4 /\ \A i \in 1..4 : IsDecimalDigit(s[i])

Strip(s) == IF s # <<>> /\ s[1] = " " THEN Tail(s) ELSE s

\* datetime.strptime(value, "%d.%m.%Y").date(): the pattern is the three
\* fields joined by literal dots, and it must consume the whole string.
strptime_dmY(value) ==
    LET dots == {i \in 1..Len(value) : value[i] = "."} IN
    IF Cardinality(dots) # 2
    THEN Raise("time data does not match format", value)
    ELSE LET i1 == CHOOSE i \in dots : \A j \in dots : i <= j
             i2 == CHOOSE i \in dots : \A j \in dots : j <= i
             ds == SubSeq(value, 1, i1 - 1)
             ms == SubSeq(value, i1 + 1, i2 - 1)
             ys == SubSeq(value, i2 + 1, Len(value))
         IN
         IF ~ (MatchDay(ds) /\ MatchMonth(ms) /\ MatchYear(ys))
         THEN Raise("time data does not match format", value)
         ELSE LET d == IntOf(Strip(ds))
                  m == IntOf(ms)
                  y == IntOf(ys)
              IN
              IF DateInRange(y, m, d) THEN Ok(Date(y, m, d))
              ELSE Raise("day is out of range for month", value)

\* Birthday.__init__: every ValueError becomes the format error.
Birthday(value) ==
    LET r == strptime_dmY(value) IN
    IF r.ok THEN r
    ELSE Raise("Invalid date format. Example: DD.MM.YYYY", value)

----------------------------------------------------------------------------
(* Record *)

\* Record.__init__
Record(name) ==
    LET n == Name(name) IN
    IF ~ n.ok THEN n
    ELSE Ok([name |-> n.val, phones |-> <<>>, birthday |-> None])

FirstIndex(phones, phone) ==
    IF \E i \in 1..Len(phones) : phones[i] = phone
    THEN CHOOSE i \in 1..Len(phones) :
            /\ phones[i] = phone
            /\ \A j \in 1..(i - 1) : phones[j] # phone
    ELSE 0

RemoveAt(s, i) == [j \in 1..(Len(s) - 1) |-> IF j < i THEN s[j] ELSE s[j + 1]]

\* Record.add_phone: result value is the record's phone list afterwards.
add_phone(phones, new_phone) ==
    IF \E i \in 1..Len(phones) : phones[i] = new_phone
    THEN Raise("Phone number already exists", phones)
    ELSE LET p == Phone(new_phone) IN
         IF ~ p.ok THEN Raise(p.err, phones)
         ELSE Ok(Append(phones, p.val))

\* Record.remove_phone
remove_phone(phones, phone) ==
    LET i == FirstIndex(phones, phone) IN
    IF i = 0 THEN Raise("Phone number not found", phones)
    ELSE Ok(RemoveAt(phones, i))

\* edit_phone with the slot overwritten before the new value is validated.
edit_phone_assign_first(phones, old_phone, new_phone) ==
    LET i == FirstIndex(phones, old_phone)
        p == Phone(new_phone) IN
    IF i = 0 THEN Raise("Old phone number not found", phones)
    ELSE IF ~ p.ok THEN Raise(p.err, [phones EXCEPT ![i] = new_phone])
    ELSE Ok([phones EXCEPT ![i] = p.val])

\* Record.edit_phone
edit_phone(phones, old_phone, new_phone) ==
    LET i == FirstIndex(phones, old_phone) IN
    IF i = 0 THEN Raise("Old phone number not found", phones)
    ELSE LET p == Phone(new_phone) IN
         IF ~ p.ok THEN Raise(p.err, phones)
         ELSE Ok([phones EXCEPT ![i] = p.val])

\* Record.find_phone
find_phone(phones, phone) ==
    LET i == FirstIndex(phones, phone) IN
    IF i = 0 THEN Raise("Phone number not found", phone)
    ELSE Ok(phones[i])

----------------------------------------------------------------------------
(* AddressBook: data is the dict, in insertion order *)

Keys(data) == {data[i].key : i \in 1..Len(data)}

KeyIndex(data, name) ==
    IF \E i \in 1..Len(data) : data[i].key = name
    THEN CHOOSE i \in 1..Len(data) : data[i].key = name
    ELSE 0

\* self.data[key] = record: a present key keeps its place, a new one goes last.
DictSet(data, key, record) ==
    LET i == KeyIndex(data, key) IN
    IF i = 0 THEN Append(data, [key |-> key, rec |-> record])
    ELSE [data EXCEPT ![i] = [key |-> key, rec |-> record]]

\* add_record without the membership test.
add_record_unguarded(data, record) ==
    Ok(DictSet(data, record.name, record))

\* AddressBook.add_record
add_record(data, record) ==
    IF record.name \in Keys(data)
    THEN Raise("Record with name already exists", data)
    ELSE Ok(DictSet(data, record.name, record))

\* AddressBook.find: the record, or None
find(data, name) ==
    LET i == KeyIndex(data, name) IN
    IF i = 0 THEN None ELSE Some(data[i].rec)

\* AddressBook.delete
delete(data, name) ==
    LET i == KeyIndex(data, name) IN
    IF i # 0 THEN Ok(RemoveAt(data, i))
    ELSE Raise("Contact not found", data)

\* A record held by the book is shared with its holder: a change made through
\* the reference is seen in the book.
SetPhones(data, name, phones) ==
    [data EXCEPT ![KeyIndex(data, name)].rec.phones = phones]

PhonesOf(data, name) == find(data, name)[1].phones

SetBirthday(data, name, birthday) ==
    [data EXCEPT ![KeyIndex(data, name)].rec.birthday = birthday]

\* Record.add_birthday: result value is the record's birthday afterwards.
add_birthday_rec(birthday, value) ==
    LET b == Birthday(value) IN
    IF ~ b.ok THEN Raise(b.err, birthday) ELSE Ok(Some(b.val))

\* One pass of the loop over self.data.values() for a record with a birthday:
\* the entry to append (or none), or the error replace() raises.
UpcomingEntry(rec, today) ==
    LET first == date_replace_year(rec.birthday[1], today.year) IN
    IF ~ first.ok THEN Raise(first.err, <<>>)
    ELSE LET second == IF DateLess(first.val, today)
                       THEN date_replace_year(first.val, today.year + 1)
                       ELSE first
         IN
         IF ~ second.ok THEN Raise(second.err, <<>>)
         ELSE LET days_to_birthday == DaysBetween(second.val, today) IN
              IF 0 <= days_to_birthday /\ days_to_birthday <= WindowDays
              THEN Ok(<<[name |-> rec.name,
                         congratulation_date |-> strftime_Ymd(second.val)]>>)
              ELSE Ok(<<>>)

RECURSIVE UpcomingFrom(_, _, _, _)
UpcomingFrom(data, today, i, upcoming_birthdays) ==
    IF i > Len(data) THEN Ok(upcoming_birthdays)
    ELSE IF data[i].rec.birthday = None
    THEN UpcomingFrom(data, today, i + 1, upcoming_birthdays)
    ELSE LET e == UpcomingEntry(data[i].rec, today) IN
         IF ~ e.ok THEN e
         ELSE UpcomingFrom(data, today, i + 1, upcoming_birthdays \o e.val)

\* AddressBook.get_upcoming_birthdays, with datetime.today().date() = today
get_upcoming_birthdays(data, today) == UpcomingFrom(data, today, 1, <<>>)

----------------------------------------------------------------------------
(* Command handlers.  A handler yields [data, out]: the directory afterwards *)
(* and the outcome.  After input_error the outcome has ok = TRUE (the call   *)
(* returned), val = the value returned and err = the text of the exception  *)
(* that was caught on the way, "" when there was none.  A returned value is  *)
(* tagged: <<"str", s>>, <<"record", r>>, <<"birthday", d>>, <<"lines", l>>. *)

Str(s) == <<"str", s>>

Return(data, v) == [data |-> data, out |-> Ok(v)]
Throw(data, msg) == [data |-> data, out |-> Raise(msg, <<>>)]

\* input_error: except Exception as error: return str(error)
input_error(r) ==
    IF r.out.ok THEN r
    ELSE [data |-> r.data,
          out |-> [ok |-> TRUE, err |-> r.out.err, val |-> Str(r.out.err)]]

\* add_contact that builds a new record whatever the directory holds.
add_contact_always_new(args, data) ==
    IF Len(args) < 2 THEN Return(data, Str("Example: add [name] [phone]"))
    ELSE IF Len(args) # 2
    THEN Throw(data, "too many values to unpack (expected 2)")
    ELSE LET name == args[1]
             phone == args[2]
             message == IF find(data, name) = None THEN "Contact added"
                        ELSE "Contact updated"
             d1 == DictSet(data, name, Record(name).val)
             p == add_phone(PhonesOf(d1, name), phone)
         IN
         IF ~ p.ok THEN Throw(d1, p.err)
         ELSE Return(SetPhones(d1, name, p.val), Str(message))

\* add_contact, before the decorator
add_contact_body(args, data) ==
    IF Len(args) < 2 THEN Return(data, Str("Example: add [name] [phone]"))
    ELSE IF Len(args) # 2
    THEN \* name, phone = args
         Throw(data, "too many values to unpack (expected 2)")
    ELSE LET name == args[1]
             phone == args[2]
             record == find(data, name)
         IN
         IF record = None
         THEN LET r == Record(name) IN
              IF ~ r.ok THEN Throw(data, r.err)
              ELSE LET a == add_record(data, r.val) IN
                   IF ~ a.ok THEN Throw(data, a.err)
                   ELSE LET p == add_phone(r.val.phones, phone) IN
                        IF ~ p.ok THEN Throw(a.val, p.err)
                        ELSE Return(SetPhones(a.val, name, p.val),
                                    Str("Contact added"))
         ELSE LET p == add_phone(record[1].phones, phone) IN
              IF ~ p.ok THEN Throw(data, p.err)
              ELSE Return(SetPhones(data, name, p.val), Str("Contact updated"))

add_contact(args, data) == input_error(add_contact_body(args, data))

\* change_contact, before the decorator
change_contact_body(args, data) ==
    IF Len(args) # 3
    THEN Return(data, Str("Example: change [name] [old_number] [new_number]"))
    ELSE LET name == args[1]
             record == find(data, name)
         IN
         IF record = None THEN Return(data, Str("Contact does not exist"))
         ELSE LET e == edit_phone(record[1].phones, args[2], args[3]) IN
              IF ~ e.ok THEN Throw(SetPhones(data, name, e.val), e.err)
              ELSE Return(SetPhones(data, name, e.val), Str("Phone changed :)"))

change_contact(args, data) == input_error(change_contact_body(args, data))

\* show_phone, before the decorator
show_phone_body(args, data) ==
    IF Len(args) # 1 THEN Return(data, Str("Example: phone [name]"))
    ELSE LET record == find(data, args[1]) IN
         IF record = None THEN Return(data, Str("Contact does not exist"))
         ELSE Return(data, <<"record", record[1]>>)

show_phone(args, data) == input_error(show_phone_body(args, data))

\* add_birthday, before the decorator
add_birthday_body(args, data) ==
    IF Len(args) # 2 THEN Return(data, Str("Example: add-birthday [name] [date]"))
    ELSE LET name == args[1]
             record == find(data, name)
         IN
         IF record = None THEN Return(data, Str("Contact does not exist"))
         ELSE LET b == add_birthday_rec(record[1].birthday, args[2]) IN
              IF ~ b.ok THEN Throw(SetBirthday(data, name, b.val), b.err)
              ELSE Return(SetBirthday(data, name, b.val), Str("Birthday added"))

add_birthday(args, data) == input_error(add_birthday_body(args, data))

\* show_birthday, before the decorator
show_birthday_body(args, data) ==
    IF Len(args) # 1 THEN Return(data, Str("Example: show-birthday [name]"))
    ELSE LET record == find(data, args[1]) IN
         IF record = None THEN Return(data, Str("Contact does not exist"))
         ELSE IF record[1].birthday # None
         THEN Return(data, <<"birthday", record[1].birthday[1]>>)
         ELSE Return(data, Str("Birthday not added to this contact"))

show_birthday(args, data) == input_error(show_birthday_body(args, data))

\* birthdays, before the decorator; the arguments are ignored
birthdays_body(args, data, today) ==
    LET upcoming_birthdays == get_upcoming_birthdays(data, today) IN
    IF ~ upcoming_birthdays.ok THEN Throw(data, upcoming_birthdays.err)
    ELSE IF upcoming_birthdays.val = <<>>
    THEN Return(data, Str("No upcoming birthdays."))
    ELSE Return(data, <<"lines", upcoming_birthdays.val>>)

birthdays(args, data, today) == input_error(birthdays_body(args, data, today))

----------------------------------------------------------------------------
(* Inputs *)

Alice == <<"A", "l", "i", "c", "e">>
Bob == <<"B", "o", "b">>
Names == {Alice, Bob}

P1 == <<"0", "1", "2", "3", "4", "5", "6", "7", "8", "9">>
P2 == Rep("9", PhoneLen)
PShort == Rep("1", PhoneLen - 1)
PhonePool == {P1, P2, PShort}

NoCall == [op |-> "none", args |-> <<>>, out |-> Ok(<<>>), before |-> <<>>]

Call(op, args, out) == [op |-> op, args |-> args, out |-> out, before |-> book]

NoDisk == [present |-> FALSE, data |-> <<>>]

----------------------------------------------------------------------------
(* Record and AddressBook called directly *)

Init ==
    /\ book = <<>>
    /\ last = NoCall
    /\ pc = "running"
    /\ disk = NoDisk

\* record = Record(name); book.add_record(record)
AddRecord ==
    \E name \in Names \cup {<<>>} :
        LET r == Record(name) IN
        /\ IF ~ r.ok
           THEN /\ book' = book
                /\ last' = Call("Record", <<name>>, Raise(r.err, <<>>))
           ELSE LET a == add_record(book, r.val) IN
                /\ book' = a.val
                /\ last' = Call("add_record", <<name>>, [a EXCEPT !.val = <<>>])
        /\ UNCHANGED <<pc, disk>>

\* book.delete(name)
Delete ==
    \E name \in Names :
        LET d == delete(book, name) IN
        /\ book' = d.val
        /\ last' = Call("delete", <<name>>, [d EXCEPT !.val = <<>>])
        /\ UNCHANGED <<pc, disk>>

\* book.find(name).add_phone(new_phone)
AddPhone ==
    \E name \in Keys(book), new_phone \in PhonePool :
        LET rec == find(book, name)[1]
            r == add_phone(rec.phones, new_phone) IN
        /\ Len(rec.phones) < MaxPhones
        /\ book' = SetPhones(book, name, r.val)
        /\ last' = Call("add_phone", <<name, new_phone>>, [r EXCEPT !.val = <<>>])
        /\ UNCHANGED <<pc, disk>>

\* book.find(name).remove_phone(phone)
RemovePhone ==
    \E name \in Keys(book), phone \in PhonePool :
        LET rec == find(book, name)[1]
            r == remove_phone(rec.phones, phone) IN
        /\ book' = SetPhones(book, name, r.val)
        /\ last' = Call("remove_phone", <<name, phone>>, [r EXCEPT !.val = <<>>])
        /\ UNCHANGED <<pc, disk>>

\* book.find(name).edit_phone(old_phone, new_phone)
EditPhone ==
    \E name \in Keys(book), old_phone \in PhonePool, new_phone \in PhonePool :
        LET rec == find(book, name)[1]
            r == edit_phone(rec.phones, old_phone, new_phone) IN
        /\ book' = SetPhones(book, name, r.val)
        /\ last' = Call("edit_phone", <<name, old_phone, new_phone>>,
                        [r EXCEPT !.val = <<>>])
        /\ UNCHANGED <<pc, disk>>

\* book.find(name).find_phone(phone)
FindPhone ==
    \E name \in Keys(book), phone \in PhonePool :
        LET rec == find(book, name)[1]
            r == find_phone(rec.phones, phone) IN
        /\ last' = Call("find_phone", <<name, phone>>,
                        IF r.ok THEN Ok(<<r.val>>) ELSE Raise(r.err, <<>>))
        /\ UNCHANGED <<book, pc, disk>>

Next ==
    \/ AddRecord
    \/ Delete
    \/ AddPhone
    \/ RemovePhone
    \/ EditPhone
    \/ FindPhone

Spec == Init /\ [][Next]_vars

----------------------------------------------------------------------------
(* Claims about Record and AddressBook *)

NoDuplicates(phones) ==
    \A i, j \in 1..Len(phones) : phones[i] = phones[j] => i = j

\* C1: in every state reached by add_phone, remove_phone and edit_phone calls
\* (successful or failing) no record's phone list holds the same value twice.
C1_PhonesUnique ==
    \A i \in 1..Len(book) : NoDuplicates(book[i].rec.phones)

\* C5: edit_phone(old, new) changes the phone sequence only at the position
\* of the first entry equal to old.  A failing call leaves the sequence as it
\* was; a successful one keeps the length, puts new where old was and leaves
\* every other position (and every other record) alone.  With old absent the
\* error is the phone-not-found error whatever new is.
C5_EditPhoneFrame ==
    last.op = "edit_phone" =>
        LET name == last.args[1]
            old == last.args[2]
            new == last.args[3]
            before == PhonesOf(last.before, name)
            after == PhonesOf(book, name)
            present == \E i \in 1..Len(before) : before[i] = old
        IN
        /\ ~ present =>
              /\ ~ last.out.ok
              /\ last.out.err = "Old phone number not found"
        /\ ~ last.out.ok => book = last.before
        /\ last.out.ok =>
              /\ present
              /\ Len(after) = Len(before)
              /\ \E i \in 1..Len(before) :
                    /\ before[i] = old
                    /\ \A j \in 1..(i - 1) : before[j] # old
                    /\ after[i] = new
                    /\ \A j \in 1..Len(before) : j # i => after[j] = before[j]
              /\ book = SetPhones(last.before, name, after)

\* C5 witness: a successful edit of the second of two phones.
C5_Witness ==
    /\ last.op = "edit_phone"
    /\ last.out.ok
    /\ Len(PhonesOf(last.before, last.args[1])) = 2
    /\ PhonesOf(last.before, last.args[1])[2] = last.args[2]
    /\ PhonesOf(last.before, last.args[1])[1] # last.args[2]
    /\ last.args[3] # last.args[2]

\* C6: add_record fails with the duplicate-name error when the name is already
\* a key, and then the directory is unchanged; otherwise the record goes in
\* under its name, last.  Every key occurs once and maps to a record of that
\* name.
C6_AddRecord ==
    /\ last.op = "add_record" =>
          LET name == last.args[1] IN
          IF name \in Keys(last.before)
          THEN /\ ~ last.out.ok
               /\ last.out.err = "Record with name already exists"
               /\ book = last.before
          ELSE /\ last.out.ok
               /\ book = Append(last.before,
                                [key |-> name,
                                 rec |-> [name |-> name, phones |-> <<>>,
                                          birthday |-> None]])
    /\ \A i, j \in 1..Len(book) : book[i].key = book[j].key => i = j
    /\ \A i \in 1..Len(book) : book[i].rec.name = book[i].key

\* C6 witness: a second add_record under the name of a record that already
\* holds a phone, with another record in the directory.
C6_Witness ==
    /\ last.op = "add_record"
    /\ ~ last.out.ok
    /\ Len(book) = 2
    /\ PhonesOf(book, last.args[1]) # <<>>

----------------------------------------------------------------------------
(* Phone() over many strings *)

Alphabet == {"0", "9", "a", "+", "U+0663"}

\* c repeated n times, with at most one position holding another character.
PhoneStrings ==
    {Rep(c, n) : c \in Alphabet, n \in 0..MaxStrLen}
    \cup UNION {{[Rep(c, n) EXCEPT ![k] = c2] :
                    c \in Alphabet, c2 \in Alphabet, k \in 1..n} : n \in 1..MaxStrLen}

FreshBook(name) == add_record(<<>>, Record(name).val).val

InitPhone ==
    /\ book \in {FreshBook(Alice), SetPhones(FreshBook(Alice), Alice, <<P1>>)}
    /\ last = NoCall
    /\ pc = "running"
    /\ disk = NoDisk

\* record.add_phone(s), once, for any string s
AddAnyPhone ==
    \E s \in PhoneStrings :
        LET r == add_phone(PhonesOf(book, Alice), s) IN
        /\ last.op = "none"
        /\ book' = SetPhones(book, Alice, r.val)
        /\ last' = Call("add_phone", <<Alice, s>>, [r EXCEPT !.val = <<>>])
        /\ UNCHANGED <<pc, disk>>

NextPhone == AddAnyPhone

SpecPhone == InitPhone /\ [][NextPhone]_vars

\* C7: Phone(s), and so add_phone(s) on a record not holding s, succeeds if
\* and only if s is exactly 10 ASCII digits 0-9; every other string fails with
\* the invalid-phone error and leaves the record's phones unchanged.
C7_PhoneAsciiOnly ==
    (last.op = "add_phone" /\ \A i \in 1..Len(PhonesOf(last.before, Alice)) :
                                 PhonesOf(last.before, Alice)[i] # last.args[2]) =>
        /\ last.out.ok <=> re_fullmatch_ascii10(last.args[2])
        /\ last.out.ok => book = SetPhones(last.before, Alice,
                                Append(PhonesOf(last.before, Alice), last.args[2]))
        /\ ~ last.out.ok =>
              /\ last.out.err = "Phone number must be 10 digits"
              /\ book = last.before

----------------------------------------------------------------------------
(* Birthdays *)

BirthdayInputs ==
    {strftime_dmY(Date(1992, 1, 1)), strftime_dmY(Date(1992, 2, 29)),
     strftime_dmY(Date(1992, 12, 31)), strftime_dmY(Date(1990, 2, 29)),
     strftime_dmY(Date(1990, 1, 1)),
     <<"1", ".", "1", ".", "1", "9", "9", "0">>, P1}

ReferenceDates ==
    {Date(y, m, d) : y \in MinYear..MaxYear, m \in 1..12, d \in 1..31}

InitBirthdays ==
    /\ book = add_record(FreshBook(Alice), Record(Bob).val).val
    /\ last = NoCall
    /\ pc = "running"
    /\ disk = NoDisk

\* book.find(name).add_birthday(value)
AddBirthdayRec ==
    \E name \in Keys(book), value \in BirthdayInputs :
        LET rec == find(book, name)[1]
            r == add_birthday_rec(rec.birthday, value) IN
        /\ book' = SetBirthday(book, name, r.val)
        /\ last' = Call("add_birthday", <<name, value>>, [r EXCEPT !.val = <<>>])
        /\ UNCHANGED <<pc, disk>>

\* book.get_upcoming_birthdays() on the day today
GetUpcomingBirthdays ==
    \E today \in ReferenceDates :
        /\ DateInRange(today.year, today.month, today.day)
        \* the query leaves the book as it is: a query right after a query
        \* reaches no state that the first one does not
        /\ last.op # "get_upcoming_birthdays"
        /\ last' = Call("get_upcoming_birthdays", <<today>>,
                        get_upcoming_birthdays(book, today))
        /\ UNCHANGED <<book, pc, disk>>

NextBirthdays ==
    \/ AddBirthdayRec
    \/ GetUpcomingBirthdays

SpecBirthdays == InitBirthdays /\ [][NextBirthdays]_vars

\* The occurrence dates of a birthday seen from today: the dates with the
\* birthday's day and month in today's year or the next that are not before
\* today; the occurrence date is the earliest of them.
Occurrences(bd, today) ==
    {Date(y, bd.month, bd.day) : y \in {today.year, today.year + 1}}

IsOccurrence(occ, bd, today) ==
    /\ occ \in Occurrences(bd, today)
    /\ DateInRange(occ.year, occ.month, occ.day)
    /\ ~ DateLess(occ, today)
    /\ \/ occ.year = today.year
       \/ ~ DateInRange(today.year, bd.month, bd.day)
       \/ DateLess(Date(today.year, bd.month, bd.day), today)

\* The records get_upcoming_birthdays has to report, in directory order.
RECURSIVE Expected(_, _, _)
Expected(data, today, i) ==
    IF i > Len(data) THEN <<>>
    ELSE LET rec == data[i].rec
             hits == IF rec.birthday = None THEN {}
                     ELSE {occ \in Occurrences(rec.birthday[1], today) :
                             /\ IsOccurrence(occ, rec.birthday[1], today)
                             /\ DaysBetween(occ, today) \in 0..WindowDays}
         IN
         (IF hits = {} THEN <<>>
          ELSE <<[name |-> rec.name,
                  congratulation_date |->
                      strftime_Ymd(CHOOSE occ \in hits : TRUE)]>>)
         \o Expected(data, today, i + 1)

\* C2: for every reference date and directory get_upcoming_birthdays returns,
\* in insertion order, exactly one entry (name and occurrence date) for each
\* record whose birthday's next occurrence lies 0..7 days after the reference
\* date, and nothing else.
C2_UpcomingExact ==
    last.op = "get_upcoming_birthdays" =>
        /\ last.out.ok
        /\ last.out.val = Expected(book, last.args[1], 1)

\* C10: get_upcoming_birthdays returns a list without raising for every
\* reference date and every directory built with accepted inputs, 29 February
\* birthdays included.
C10_UpcomingNeverRaises ==
    last.op = "get_upcoming_birthdays" => last.out.ok

----------------------------------------------------------------------------
(* The handlers called directly *)

D1 == strftime_dmY(Date(1992, 1, 1))

\* Argument lists: a name, a value, a phone; positions past the third hold P1.
RECURSIVE ArgListsOver(_, _, _)
ArgListsOver(names, values, n) ==
    IF n = 0 THEN {<<>>}
    ELSE IF n = 1 THEN {<<x>> : x \in names}
    ELSE {Append(a, v) : a \in ArgListsOver(names, values, n - 1),
                         v \in IF n = 2 THEN values
                               ELSE IF n = 3 THEN values \cap {P1, P2}
                               ELSE {P1}}

ArgLists == UNION {ArgListsOver(Names, {P1, P2, D1}, n) : n \in 0..MaxArgs}

HandlerDates == {Date(MinYear, 12, 30), Date(MaxYear, 1, 2)}

\* The inputs stop growing a record past MaxPhones phones.
WithinPhones(args) ==
    (Len(args) >= 1 /\ find(book, args[1]) # None) =>
        Len(PhonesOf(book, args[1])) < MaxPhones

\* A call that left the directory as it was leads to a state whose successors
\* are those of the state it was made in (a call reads the directory only):
\* nothing new is reached from there, and the exploration stops there.
Explore == last.op = "none" \/ book # last.before

Handled(op, args, r) ==
    /\ book' = r.data
    /\ last' = Call(op, args, r.out)
    /\ UNCHANGED <<pc, disk>>

AddContact ==
    /\ Explore
    /\ \E args \in ArgLists :
          /\ WithinPhones(args)
          /\ Handled("add", args, add_contact(args, book))

ChangeContact ==
    /\ Explore
    /\ \E args \in ArgLists : Handled("change", args, change_contact(args, book))

ShowPhone ==
    /\ Explore
    /\ \E args \in ArgLists : Handled("phone", args, show_phone(args, book))

AddBirthday ==
    /\ Explore
    /\ \E args \in ArgLists :
          Handled("add-birthday", args, add_birthday(args, book))

ShowBirthday ==
    /\ Explore
    /\ \E args \in ArgLists :
          Handled("show-birthday", args, show_birthday(args, book))

Birthdays ==
    /\ Explore
    /\ \E args \in {<<>>, <<Alice>>}, today \in HandlerDates :
          Handled("birthdays", args \o <<today>>, birthdays(args, book, today))

NextHandlers ==
    \/ AddContact
    \/ ChangeContact
    \/ ShowPhone
    \/ AddBirthday
    \/ ShowBirthday
    \/ Birthdays

SpecHandlers == Init /\ [][NextHandlers]_vars

Arity(op) ==
    CASE op = "add" -> 2 [] op = "change" -> 3 [] op = "phone" -> 1
      [] op = "add-birthday" -> 2 [] op = "show-birthday" -> 1

Usage(op) ==
    CASE op = "add" -> "Example: add [name] [phone]"
      [] op = "change" -> "Example: change [name] [old_number] [new_number]"
      [] op = "phone" -> "Example: phone [name]"
      [] op = "add-birthday" -> "Example: add-birthday [name] [date]"
      [] op = "show-birthday" -> "Example: show-birthday [name]"

ArgHandlers == {"add", "change", "phone", "add-birthday", "show-birthday"}

\* C3: a handler given an argument list of the wrong length, too short or too
\* long, returns its usage hint, not an error message, and leaves the
\* directory unchanged.
C3_WrongCountGivesUsage ==
    (last.op \in ArgHandlers /\ Len(last.args) # Arity(last.op)) =>
        /\ last.out.val = Str(Usage(last.op))
        /\ last.out.err = ""
        /\ book = last.before

\* C8: `add name phone` with a valid phone: for a name in the directory whose
\* record does not hold the phone it returns "Contact updated" and appends the
\* phone after the record's phones (each earlier one still found by
\* find_phone), adds no record and changes no other; for a new name it returns
\* "Contact added" and the directory gains one record holding just that phone.
C8_AddContact ==
    (/\ last.op = "add"
     /\ Len(last.args) = 2
     /\ re_fullmatch_ascii10(last.args[2])) =>
        LET name == last.args[1]
            phone == last.args[2]
        IN
        IF name \in Keys(last.before)
        THEN LET old == PhonesOf(last.before, name) IN
             (\A i \in 1..Len(old) : old[i] # phone) =>
                /\ last.out.val = Str("Contact updated")
                /\ book = SetPhones(last.before, name, Append(old, phone))
                /\ Len(book) = Len(last.before)
                /\ \A i \in 1..Len(old) :
                      find_phone(PhonesOf(book, name), old[i]) = Ok(old[i])
                /\ find_phone(PhonesOf(book, name), phone) = Ok(phone)
        ELSE /\ last.out.val = Str("Contact added")
             /\ book = Append(last.before,
                              [key |-> name,
                               rec |-> [name |-> name, phones |-> <<phone>>,
                                        birthday |-> None]])

\* C8 witness: "Contact updated" for a record that already held a phone, with
\* another record in the directory.
C8_Witness ==
    /\ last.op = "add"
    /\ last.out.val = Str("Contact updated")
    /\ Len(book) = 2
    /\ Len(PhonesOf(book, last.args[1])) = 2
    /\ PhonesOf(last.before, last.args[1]) = <<P2>>

\* C9: a handler call that returns an error message (the text of an exception,
\* or "Contact does not exist") leaves the directory as it was.
C9_ErrorLeavesDirectory ==
    (/\ last.op \in ArgHandlers \cup {"birthdays"}
     /\ \/ last.out.err # ""
        \/ last.out.val = Str("Contact does not exist")) =>
        book = last.before

----------------------------------------------------------------------------
(* The command loop *)

Whitespace == {" "}

\* str.split(): the maximal runs of non-whitespace characters, in order
RECURSIVE SplitFrom(_, _, _, _)
SplitFrom(s, i, word, words) ==
    IF i > Len(s) THEN (IF word = <<>> THEN words ELSE Append(words, word))
    ELSE IF s[i] \in Whitespace
    THEN SplitFrom(s, i + 1, <<>>, IF word = <<>> THEN words ELSE Append(words, word))
    ELSE SplitFrom(s, i + 1, Append(word, s[i]), words)

str_split(s) == SplitFrom(s, 1, <<>>, <<>>)

\* str.strip()
RECURSIVE str_strip(_)
str_strip(s) ==
    IF s # <<>> /\ s[1] \in Whitespace THEN str_strip(Tail(s))
    ELSE IF s # <<>> /\ s[Len(s)] \in Whitespace
    THEN str_strip(SubSeq(s, 1, Len(s) - 1))
    ELSE s

ToLower(c) ==
    CASE c = "A" -> "a" [] c = "B" -> "b" [] c = "C" -> "c" [] c = "D" -> "d"
      [] c = "E" -> "e" [] c = "F" -> "f" [] c = "G" -> "g" [] c = "H" -> "h"
      [] c = "I" -> "i" [] c = "J" -> "j" [] c = "K" -> "k" [] c = "L" -> "l"
      [] c = "M" -> "m" [] c = "N" -> "n" [] c = "O" -> "o" [] c = "P" -> "p"
      [] c = "Q" -> "q" [] c = "R" -> "r" [] c = "S" -> "s" [] c = "T" -> "t"
      [] c = "U" -> "u" [] c = "V" -> "v" [] c = "W" -> "w" [] c = "X" -> "x"
      [] c = "Y" -> "y" [] c = "Z" -> "z"
      [] OTHER -> c

\* str.lower()
str_lower(s) == [i \in 1..Len(s) |-> ToLower(s[i])]

\* parse_input: cmd, *args = user_input.split()
parse_input(user_input) ==
    LET words == str_split(user_input) IN
    IF words = <<>>
    THEN Raise("not enough values to unpack (expected at least 1, got 0)", <<>>)
    ELSE Ok([cmd |-> str_lower(str_strip(words[1])), args |-> Tail(words)])

\* load_data: the pickled book, or a new AddressBook when the file is missing
load_data(file) == IF file.present THEN file.data ELSE <<>>

\* save_data
save_data(data) == [present |-> TRUE, data |-> data]

CmdClose == <<"c", "l", "o", "s", "e">>
CmdExit == <<"e", "x", "i", "t">>
CmdHello == <<"h", "e", "l", "l", "o">>
CmdAdd == <<"a", "d", "d">>
CmdChange == <<"c", "h", "a", "n", "g", "e">>
CmdPhone == <<"p", "h", "o", "n", "e">>
CmdAll == <<"a", "l", "l">>
CmdAddBirthday == <<"a", "d", "d", "-", "b", "i", "r", "t", "h", "d", "a", "y">>
CmdShowBirthday == <<"s", "h", "o", "w", "-", "b", "i", "r", "t", "h", "d", "a", "y">>
CmdBirthdays == <<"b", "i", "r", "t", "h", "d", "a", "y", "s">>

\* One pass of the while loop of main() on the line user_input, with
\* datetime.today().date() = today: [data, out, pc, disk], where out.val is
\* what was printed and out.ok is FALSE when an exception left main().
main_loop(user_input, data, file, today) ==
    LET parsed == parse_input(user_input)
        Go(r) == [data |-> r.data, out |-> r.out, pc |-> "running", disk |-> file]
    IN
    IF ~ parsed.ok
    THEN [data |-> data, out |-> parsed, pc |-> "crashed", disk |-> file]
    ELSE LET command == parsed.val.cmd
             args == parsed.val.args
         IN
         IF command \in {CmdClose, CmdExit}
         THEN [data |-> data, out |-> Ok(Str("Good bye!")), pc |-> "exited",
               disk |-> save_data(data)]
         ELSE IF command = CmdHello THEN Go(Return(data, Str("How can I help you?")))
         ELSE IF command = CmdAdd THEN Go(add_contact(args, data))
         ELSE IF command = CmdChange THEN Go(change_contact(args, data))
         ELSE IF command = CmdPhone THEN Go(show_phone(args, data))
         ELSE IF command = CmdAll THEN Go(Return(data, <<"book", data>>))
         ELSE IF command = CmdAddBirthday THEN Go(add_birthday(args, data))
         ELSE IF command = CmdShowBirthday THEN Go(show_birthday(args, data))
         ELSE IF command = CmdBirthdays THEN Go(birthdays(args, data, today))
         ELSE Go(Return(data, Str("Invalid command.")))

RECURSIVE Join(_)
Join(words) ==
    IF words = <<>> THEN <<>>
    ELSE IF Len(words) = 1 THEN words[1]
    ELSE words[1] \o <<" ">> \o Join(Tail(words))

CommandWords ==
    {CmdClose, CmdExit, CmdHello, CmdAdd, CmdChange, CmdPhone, CmdAll,
     CmdAddBirthday, CmdShowBirthday, CmdBirthdays,
     <<"E", "x", "i", "t">>, <<"A", "D", "D">>, <<"f", "o", "o">>}

MainArgLists == UNION {ArgListsOver({Alice}, {P1, D1}, n) : n \in 0..MaxArgs}

\* The lines typed: empty, blanks only, or a command word and arguments,
\* with or without leading blanks.
InputLines ==
    {<<>>, <<" ", " ">>}
    \cup {lead \o Join(<<w>> \o a) :
            lead \in {<<>>, <<" ">>}, w \in CommandWords, a \in MainArgLists}

InitMain ==
    /\ disk \in {NoDisk, save_data(SetPhones(FreshBook(Alice), Alice, <<P2>>))}
    /\ book = load_data(disk)
    /\ last = NoCall
    /\ pc = "running"

\* user_input = input(...) and the rest of the loop body; save_data after it
ReadLine ==
    /\ pc = "running"
    /\ Explore
    /\ \E user_input \in InputLines, today \in HandlerDates :
          LET r == main_loop(user_input, book, disk, today) IN
          /\ book' = r.data
          /\ last' = Call("line", <<user_input>>, r.out)
          /\ pc' = r.pc
          /\ disk' = r.disk

NextMain == ReadLine

SpecMain == InitMain /\ [][NextMain]_vars

\* C4: after every line (empty and blank lines, unknown commands and failing
\* commands included) the loop is still running and has printed a message;
\* the session ends only on close or exit, and then the directory is saved.
C4_LoopSurvivesEveryLine ==
    /\ pc \in {"running", "exited"}
    /\ last.op = "line" => (last.out.ok /\ last.out.val # <<>>)
    /\ pc = "exited" =>
          /\ parse_input(last.args[1]).val.cmd \in {CmdClose, CmdExit}
          /\ disk = save_data(book)

====
